---- MODULE Spec2Model ----
(***************************************************************************)
(* PreferenceManager (preference store and recommendation score),          *)
(* MemoryManager (movie cache), the /api/preferences route handlers and    *)
(* the debounce and throttle utilities of the movie-swipe application, as  *)
(* a state machine.                                                        *)
(*                                                                         *)
(* Numbers.  Ratings are held in tenths (8.0 is 80).  minimumRating is a   *)
(* reduced fraction <<num, den>> of tenths, so that the average of the     *)
(* liked ratings is exact; the code's IEEE doubles are modelled by exact   *)
(* rationals.  Factors of the score are held in 1/200, weights in 1/100,   *)
(* the score in 1/20000.                                                   *)
(*                                                                         *)
(* Time.  `now` is the clock every `new Date()` reads; saveInteraction and  *)
(* savePreferences, which stamp the time, are one tick apart.  The stored  *)
(* history of an earlier page session carries the time stamps <= 0.  A     *)
(* movie's release_year stands for new Date(release_date).getFullYear().   *)
(***************************************************************************)
EXTENDS Integers, Sequences, FiniteSets, TLC

VARIABLES
    localStorage,          \* window.localStorage: key -> item
    DEFAULT_PREFERENCES,   \* the module-level object of that name (mutable)
    mode,                  \* what localStorage does: "ok", "full", "denied";
                           \* "server" where there is no window at all
    now,                   \* the clock
    ret,                   \* the last call and what its caller got
    movieCache,            \* MemoryManager.movieCache: the entries of the Map,
                           \* in the order the Map iterates them
    timeoutId,             \* debounce: the closure's timeoutId (0: undefined)
    inThrottle,            \* throttle: the closure's inThrottle
    timers,                \* the runtime's timers that are set and have
                           \* neither run nor been cleared
    timerSeq,              \* the handle setTimeout returned last
    events                 \* what the two closures were seen doing: calls of
                           \* debounced and throttled, invocations of func

utilVars == <<timeoutId, inThrottle, timers, timerSeq, events>>

vars == <<localStorage, DEFAULT_PREFERENCES, mode, now, ret, movieCache,
          timeoutId, inThrottle, timers, timerSeq, events>>

-----------------------------------------------------------------------------
\* Bounds of the model

\* Calls that stamp a time, per page session.
MaxOps == 2

\* Interactions an earlier page session left in localStorage.
PriorLen == 99

\* Clock ticks per calendar year.
TicksPerYear == 2

\* Movies cached earlier in the page session.
CachedBefore == 49

\* Calls of cacheMovie after these.
MaxCacheOps == 3

\* Calls of debounced and throttled, per page session.
MaxCalls == 2

\* Milliseconds the clock runs while timers are set.
MaxTime == 5

-----------------------------------------------------------------------------
\* Constants of the program

STORAGE_KEY == "movie-swipe-preferences"

INTERACTIONS_KEY == "movie-swipe-interactions"

MAX_INTERACTIONS == 100

MAX_CACHE_SIZE == 50

Keys == {STORAGE_KEY, INTERACTIONS_KEY}

\* The literal of DEFAULT_PREFERENCES: what the module-level object holds
\* when the module has just been loaded (yearRange and excludeAdult, which no
\* operation reads or writes, are left out).
DefaultLiteral ==
    [favoriteGenres |-> <<>>,
     dislikedGenres |-> <<>>,
     minimumRating  |-> <<60, 1>>,
     languages      |-> <<"en">>,
     lastUpdated    |-> 0]

DEFAULT_WEIGHTS ==
    [genre |-> 40, rating |-> 20, recency |-> 15, popularity |-> 15, language |-> 10]

-----------------------------------------------------------------------------
\* Arithmetic helpers

Max(a, b) == IF a >= b THEN a ELSE b

Min(a, b) == IF a <= b THEN a ELSE b

RECURSIVE Gcd(_, _)
Gcd(a, b) == IF b = 0 THEN a ELSE Gcd(b, a % b)

\* The fraction n/d (d > 0, n >= 0) in lowest terms.
Frac(n, d) == LET g == Gcd(n, d) IN <<n \div g, d \div g>>

\* Array.prototype.includes
Includes(s, x) == \E i \in 1..Len(s) : s[i] = x

\* YearOf reading the clock at the grain of a tick
YearOfTick(t) == 2024 + t

\* new Date().getFullYear()
YearOf(t) == 2024 + (t \div TicksPerYear)

-----------------------------------------------------------------------------
\* JSON: Date values are written as ISO strings and read back with new Date()

toISOString(t) == <<"iso", t>>

newDate(s) == s[2]

StringifyPreferences(p) == [p EXCEPT !.lastUpdated = toISOString(p.lastUpdated)]

ParsePreferences(j) == [j EXCEPT !.lastUpdated = newDate(j.lastUpdated)]

\* (<<>> \o f makes the mapped array a tuple at once.)
StringifyInteractions(is) ==
    <<>> \o [k \in 1..Len(is) |-> [is[k] EXCEPT !.timestamp = toISOString(is[k].timestamp)]]

ParseInteractions(j) ==
    <<>> \o [k \in 1..Len(j) |-> [j[k] EXCEPT !.timestamp = newDate(j[k].timestamp)]]

-----------------------------------------------------------------------------
\* localStorage.  An item is absent (getItem gives null), the JSON text a
\* call of the program wrote, or text JSON.parse rejects.

Absent == [kind |-> "absent"]

Garbage == [kind |-> "garbage"]

Json(v) == [kind |-> "json", v |-> v]

EmptyStorage == [k \in Keys |-> Absent]

\* localStorage.setItem under mode m: [threw, ls].  It throws when the quota
\* is exhausted ("full") or storage is refused ("denied").
setItem(ls, m, key, value) ==
    IF m = "ok"
    THEN [threw |-> FALSE, ls |-> [ls EXCEPT ![key] = value]]
    ELSE [threw |-> TRUE, ls |-> ls]

\* localStorage.removeItem under mode m: it throws only when storage is refused.
removeItem(ls, m, key) ==
    IF m = "denied"
    THEN [threw |-> TRUE, ls |-> ls]
    ELSE [threw |-> FALSE, ls |-> [ls EXCEPT ![key] = Absent]]

-----------------------------------------------------------------------------
\* PreferenceManager

\* getPreferences: [ref, value].  ref tells which object the caller holds:
\* "default" is the DEFAULT_PREFERENCES object itself, "parsed" a new object.
getPreferences(ls, def, m) ==
    IF m = "server" THEN [ref |-> "default", value |-> def]
    ELSE IF m # "denied" /\ ls[STORAGE_KEY].kind = "json"
    THEN [ref |-> "parsed", value |-> ParsePreferences(ls[STORAGE_KEY].v)]
    ELSE [ref |-> "default", value |-> def]

\* savePreferences without the time stamp
savePreferencesUnstamped(ls, def, m, t, p) ==
    [ls  |-> setItem(ls, m, STORAGE_KEY, Json(StringifyPreferences(p.value))).ls,
     def |-> def]

\* savePreferences(preferences) at time t, preferences being the object
\* p = [ref, value]: [ls, def].  The time stamp is written into the object
\* before setItem is tried.  Where there is no window nothing is done.
savePreferences(ls, def, m, t, p) ==
    LET stamped == [p.value EXCEPT !.lastUpdated = t]
        put     == setItem(ls, m, STORAGE_KEY, Json(StringifyPreferences(stamped)))
    IN  IF m = "server" THEN [ls |-> ls, def |-> def]
        ELSE [ls  |-> put.ls,
              def |-> IF p.ref = "default" THEN stamped ELSE def]

getInteractions(ls, m) ==
    IF m = "server" THEN <<>>
    ELSE IF m # "denied" /\ ls[INTERACTIONS_KEY].kind = "json"
    THEN ParseInteractions(ls[INTERACTIONS_KEY].v)
    ELSE <<>>

\* AddFavorites without the test for a disliked genre
RECURSIVE AddFavoritesAlsoDisliked(_, _)
AddFavoritesAlsoDisliked(genre_ids, prefs) ==
    IF genre_ids = <<>> THEN prefs
    ELSE LET genreId == Head(genre_ids)
             next == IF ~Includes(prefs.favoriteGenres, genreId)
                     THEN [prefs EXCEPT !.favoriteGenres = Append(@, genreId)]
                     ELSE prefs
         IN  AddFavoritesAlsoDisliked(Tail(genre_ids), next)

\* AddFavorites without the test for a genre that is a favorite already
RECURSIVE AddFavoritesRepeating(_, _)
AddFavoritesRepeating(genre_ids, prefs) ==
    IF genre_ids = <<>> THEN prefs
    ELSE LET genreId == Head(genre_ids)
             next == IF ~Includes(prefs.dislikedGenres, genreId)
                     THEN [prefs EXCEPT !.favoriteGenres = Append(@, genreId)]
                     ELSE prefs
         IN  AddFavoritesRepeating(Tail(genre_ids), next)

\* like: movie.genre_ids.forEach(push to favoriteGenres unless disliked or present)
RECURSIVE AddFavorites(_, _)
AddFavorites(genre_ids, prefs) ==
    IF genre_ids = <<>> THEN prefs
    ELSE LET genreId == Head(genre_ids)
             next == IF /\ ~Includes(prefs.dislikedGenres, genreId)
                        /\ ~Includes(prefs.favoriteGenres, genreId)
                     THEN [prefs EXCEPT !.favoriteGenres = Append(@, genreId)]
                     ELSE prefs
         IN  AddFavorites(Tail(genre_ids), next)

\* AddDisliked without the removal from favoriteGenres
RECURSIVE AddDislikedKeepFavorite(_, _)
AddDislikedKeepFavorite(genre_ids, prefs) ==
    IF genre_ids = <<>> THEN prefs
    ELSE LET genreId == Head(genre_ids)
             next == IF ~Includes(prefs.dislikedGenres, genreId)
                     THEN [prefs EXCEPT !.dislikedGenres = Append(@, genreId)]
                     ELSE prefs
         IN  AddDislikedKeepFavorite(Tail(genre_ids), next)

\* dislike: movie.genre_ids.forEach(filter out of favoriteGenres, push to dislikedGenres)
RECURSIVE AddDisliked(_, _)
AddDisliked(genre_ids, prefs) ==
    IF genre_ids = <<>> THEN prefs
    ELSE LET genreId == Head(genre_ids)
             filtered == [prefs EXCEPT !.favoriteGenres =
                             SelectSeq(@, LAMBDA id : id # genreId)]
             next == IF ~Includes(filtered.dislikedGenres, genreId)
                     THEN [filtered EXCEPT !.dislikedGenres = Append(@, genreId)]
                     ELSE filtered
         IN  AddDisliked(Tail(genre_ids), next)

RECURSIVE SumRatings(_)
SumRatings(is) == IF is = <<>> THEN 0 ELSE Head(is).rating + SumRatings(Tail(is))

\* Math.max(5.0, avgRating - 1) over the liked interactions
AdjustedMinimum(likedMovies) ==
    LET n   == Len(likedMovies)
        sum == SumRatings(likedMovies)
    IN  IF sum - 10 * n >= 50 * n THEN Frac(sum - 10 * n, n) ELSE <<50, 1>>

\* EnoughLikes with >= for >
EnoughLikesFromFive(likedMovies) == Len(likedMovies) >= 5

\* if (likedMovies.length > 5)
EnoughLikes(likedMovies) == Len(likedMovies) > 5

\* updatePreferencesFromInteraction adjusting minimumRating after every action
updatePreferencesAdjustAlways(ls, def, m, t, movie, action) ==
    LET p == getPreferences(ls, def, m)
        likedMovies == SelectSeq(getInteractions(ls, m), LAMBDA i : i.action = "like")
        changed ==
            IF action = "like" THEN AddFavorites(movie.genre_ids, p.value)
            ELSE IF action = "dislike" THEN AddDisliked(movie.genre_ids, p.value)
            ELSE p.value
        updated ==
            IF EnoughLikes(likedMovies)
            THEN [changed EXCEPT !.minimumRating = AdjustedMinimum(likedMovies)]
            ELSE changed
    IN  savePreferences(ls, def, m, t, [ref |-> p.ref, value |-> updated])

\* updatePreferencesFromInteraction with a plain else for the dislike branch
updatePreferencesElseDislike(ls, def, m, t, movie, action) ==
    LET p == getPreferences(ls, def, m)
        likedMovies == SelectSeq(getInteractions(ls, m), LAMBDA i : i.action = "like")
        liked == AddFavorites(movie.genre_ids, p.value)
        updated ==
            IF action = "like"
            THEN IF EnoughLikes(likedMovies)
                 THEN [liked EXCEPT !.minimumRating = AdjustedMinimum(likedMovies)]
                 ELSE liked
            ELSE AddDisliked(movie.genre_ids, p.value)
    IN  savePreferences(ls, def, m, t, [ref |-> p.ref, value |-> updated])

\* updatePreferencesFromInteraction(movie, action) at time t: [ls, def]
updatePreferencesFromInteraction(ls, def, m, t, movie, action) ==
    LET p == getPreferences(ls, def, m)
        likedMovies == SelectSeq(getInteractions(ls, m), LAMBDA i : i.action = "like")
        liked == AddFavorites(movie.genre_ids, p.value)
        updated ==
            IF action = "like"
            THEN IF EnoughLikes(likedMovies)
                 THEN [liked EXCEPT !.minimumRating = AdjustedMinimum(likedMovies)]
                 ELSE liked
            ELSE IF action = "dislike"
            THEN AddDisliked(movie.genre_ids, p.value)
            ELSE p.value
    IN  savePreferences(ls, def, m, t, [ref |-> p.ref, value |-> updated])

\* Limit without the cut
LimitNever(interactions) == interactions

\* if (interactions.length > MAX_INTERACTIONS) interactions = interactions.slice(0, MAX_INTERACTIONS)
Limit(interactions) ==
    IF Len(interactions) > MAX_INTERACTIONS
    THEN SubSeq(interactions, 1, MAX_INTERACTIONS)
    ELSE interactions

\* Unshift placing the record at the end
UnshiftAtEnd(interactions, interaction) == Append(interactions, interaction)

\* interactions.unshift(interaction)
Unshift(interactions, interaction) == <<interaction>> \o interactions

\* saveInteraction giving up when the stored log is no JSON
saveInteractionGivingUp(ls, def, m, t, movie, action) ==
    IF m = "server" \/ ls[INTERACTIONS_KEY].kind = "garbage"
    THEN [ls |-> ls, def |-> def]
    ELSE updatePreferencesFromInteraction(
             setItem(ls, m, INTERACTIONS_KEY,
                     Json(StringifyInteractions(Limit(Unshift(
                         getInteractions(ls, m),
                         [movieId |-> movie.id, action |-> action, timestamp |-> t,
                          genres |-> movie.genre_ids, rating |-> movie.vote_average]))))).ls,
             def, m, t, movie, action)

\* saveInteraction(movie, action) at time t: [ls, def]
saveInteraction(ls, def, m, t, movie, action) ==
    LET interaction == [movieId   |-> movie.id,
                        action    |-> action,
                        timestamp |-> t,
                        genres    |-> movie.genre_ids,
                        rating    |-> movie.vote_average]
        interactions == Limit(Unshift(getInteractions(ls, m), interaction))
        put == setItem(ls, m, INTERACTIONS_KEY, Json(StringifyInteractions(interactions)))
    IN  IF m = "server" THEN [ls |-> ls, def |-> def]
        ELSE updatePreferencesFromInteraction(put.ls, def, m, t, movie, action)

\* resetPreferences: the two removeItem calls are not guarded; the first
\* one that throws ends the call.
resetPreferences(ls, m) ==
    LET first == removeItem(ls, m, STORAGE_KEY)
    IN  IF m = "server" THEN [threw |-> FALSE, ls |-> ls]
        ELSE IF first.threw THEN first
        ELSE removeItem(first.ls, m, INTERACTIONS_KEY)

\* getStatistics with the filter of dislikes copied to skips
getStatisticsSkipsCopied(ls, def, m) ==
    LET interactions == getInteractions(ls, m)
        preferences == getPreferences(ls, def, m).value
        count(a) == Len(SelectSeq(interactions, LAMBDA i : i.action = a))
    IN  [totalInteractions |-> Len(interactions),
         likes          |-> count("like"),
         dislikes       |-> count("dislike"),
         skips          |-> count("dislike"),
         favoriteGenres |-> Len(preferences.favoriteGenres),
         dislikedGenres |-> Len(preferences.dislikedGenres),
         lastUpdated    |-> preferences.lastUpdated]

getStatistics(ls, def, m) ==
    LET interactions == getInteractions(ls, m)
        preferences == getPreferences(ls, def, m).value
        count(a) == Len(SelectSeq(interactions, LAMBDA i : i.action = a))
    IN  [totalInteractions |-> Len(interactions),
         likes          |-> count("like"),
         dislikes       |-> count("dislike"),
         skips          |-> count("skip"),
         favoriteGenres |-> Len(preferences.favoriteGenres),
         dislikedGenres |-> Len(preferences.dislikedGenres),
         lastUpdated    |-> preferences.lastUpdated]

\* recencyScore decaying over 10 years
recencyScoreTenYears(movie, t) == Max(0, 200 - 20 * (YearOf(t) - movie.release_year))

\* recencyScore cut to 1
recencyScoreCapped(movie, t) ==
    Min(200, Max(0, 200 - 10 * (YearOf(t) - movie.release_year)))

\* Recency: Math.max(0, 1 - (currentYear - releaseYear) / 20), the current
\* year being read from the clock
recencyScore(movie, t) == Max(0, 200 - 10 * (YearOf(t) - movie.release_year))

\* Clamp01 without the upper bound
ClampBelowOnly(score) == Max(0, score)

\* Math.min(1, Math.max(0, score))
Clamp01(score) == Min(20000, Max(0, score))

\* movie.genre_ids.filter(id => list.includes(id))
GenreMatches(movie, list) == SelectSeq(movie.genre_ids, LAMBDA id : Includes(list, id))

\* genreScore with the penalty taken before the cap
genreScorePenaltyFirst(movie, preferences) ==
    LET f == Len(GenreMatches(movie, preferences.favoriteGenres))
        d == Len(GenreMatches(movie, preferences.dislikedGenres))
    IN  Max(0, Min(200, 100 + f * 40 - d * 60))

\* Genre scoring: the value of genreScore when it is added to the score
genreScore(movie, preferences) ==
    LET favoriteGenreMatches == GenreMatches(movie, preferences.favoriteGenres)
        dislikedGenreMatches == GenreMatches(movie, preferences.dislikedGenres)
        boosted == IF Len(favoriteGenreMatches) > 0
                   THEN Min(200, 100 + Len(favoriteGenreMatches) * 40)
                   ELSE 100
    IN  IF Len(dislikedGenreMatches) > 0
        THEN Max(0, boosted - Len(dislikedGenreMatches) * 60)
        ELSE boosted

\* The reasons pushed by the genre scoring
genreReasons(movie, preferences) ==
    LET favoriteGenreMatches == GenreMatches(movie, preferences.favoriteGenres)
        dislikedGenreMatches == GenreMatches(movie, preferences.dislikedGenres)
    IN  (IF Len(favoriteGenreMatches) > 0
         THEN << <<"Matches favorite genre(s)", Len(favoriteGenreMatches)>> >>
         ELSE <<>>)
        \o (IF Len(dislikedGenreMatches) > 0
            THEN << <<"Contains disliked genre(s)", Len(dislikedGenreMatches)>> >>
            ELSE <<>>)

\* aboveMinimum with > for >=
aboveMinimumStrictly(movie, preferences) ==
    movie.vote_average * preferences.minimumRating[2] > preferences.minimumRating[1]

\* movie.vote_average >= preferences.minimumRating
aboveMinimum(movie, preferences) ==
    movie.vote_average * preferences.minimumRating[2] >= preferences.minimumRating[1]

\* languageReasons pushing the reason for every language
languageReasonsAlways(movie, preferences) ==
    << <<"Preferred language", movie.original_language>> >>

\* The reason pushed by the language scoring
languageReasons(movie, preferences) ==
    IF Includes(preferences.languages, movie.original_language)
    THEN << <<"Preferred language", movie.original_language>> >>
    ELSE <<>>

\* calculateRecommendationScore(movie, preferences, weights) called at time t
calculateRecommendationScore(movie, preferences, weights, t) ==
    LET ratingScore == Min(200, 2 * movie.vote_average)
        ratingPart == IF aboveMinimum(movie, preferences)
                      THEN ratingScore * weights.rating
                      ELSE (ratingScore \div 2) * weights.rating
        ratingReasons == IF aboveMinimum(movie, preferences)
                         THEN << <<"High rating", movie.vote_average>> >>
                         ELSE <<>>
        popularityScore == Min(200, 2 * movie.popularity)
        preferred == Includes(preferences.languages, movie.original_language)
        languageScore == IF preferred THEN 200 ELSE 60
        score == genreScore(movie, preferences) * weights.genre
                 + ratingPart
                 + recencyScore(movie, t) * weights.recency
                 + popularityScore * weights.popularity
                 + languageScore * weights.language
    IN  [movieId |-> movie.id,
         score   |-> Clamp01(score),
         reasons |-> genreReasons(movie, preferences) \o ratingReasons
                         \o languageReasons(movie, preferences)]

-----------------------------------------------------------------------------
\* MemoryManager.  An entry of movieCache is [id, data, since]: the key, the
\* value, and the time the key entered the Map.  `since` is not stored by
\* the program; it is kept to state in which order the keys came in.

\* JavaScript values handed to the cache: strings, null, undefined.
Str(s) == <<"string", s>>

Null == <<"null">>

Undefined == <<"undefined">>

\* What `||` takes for false.
Falsy(v) == v \in {Null, Undefined, Str("")}

\* Map.prototype.has
MapHas(cache, id) == \E k \in 1..Len(cache) : cache[k].id = id

\* Map.prototype.get
MapGet(cache, id) ==
    IF MapHas(cache, id)
    THEN cache[CHOOSE k \in 1..Len(cache) : cache[k].id = id].data
    ELSE Undefined

\* MapSet moving a key that is present to the end of the order
MapSetRefreshing(cache, id, data, t) ==
    IF MapHas(cache, id)
    THEN LET k == CHOOSE j \in 1..Len(cache) : cache[j].id = id
         IN  Append(SelectSeq(cache, LAMBDA e : e.id # id),
                    [id |-> id, data |-> data, since |-> cache[k].since])
    ELSE Append(cache, [id |-> id, data |-> data, since |-> t])

\* Map.prototype.set at time t: a key that is present keeps its place in
\* the order and gets the new value, a new key goes to the end.
MapSet(cache, id, data, t) ==
    IF MapHas(cache, id)
    THEN <<>> \o [k \in 1..Len(cache) |->
                    IF cache[k].id = id THEN [cache[k] EXCEPT !.data = data]
                    ELSE cache[k]]
    ELSE Append(cache, [id |-> id, data |-> data, since |-> t])

\* TooLarge with > for >=
TooLargeAbove(cache) == Len(cache) > MAX_CACHE_SIZE

\* if (this.movieCache.size >= this.MAX_CACHE_SIZE)
TooLarge(cache) == Len(cache) >= MAX_CACHE_SIZE

\* cacheMovie(movieId, movieData) at time t: the cache after the call.
\* movieCache.keys().next().value is the first key of the order.
cacheMovie(cache, movieId, movieData, t) ==
    MapSet(IF TooLarge(cache) THEN Tail(cache) ELSE cache, movieId, movieData, t)

\* getCachedMovie(movieId): this.movieCache.get(movieId) || null
getCachedMovie(cache, movieId) ==
    IF Falsy(MapGet(cache, movieId)) THEN Null ELSE MapGet(cache, movieId)

\* clearCache(): the cache after the call
clearCache(cache) == <<>>

\* cleanup(): clearCache(), then gc() where the window has one
cleanup(cache) == clearCache(cache)

\* The size chosen from the viewport width
ImageSize(viewportWidth) ==
    IF viewportWidth < 640 THEN "w300"
    ELSE IF viewportWidth > 1280 THEN "w780"
    ELSE "w500"

\* getOptimizedImageUrl(path, viewportWidth), env being
\* process.env.NEXT_PUBLIC_TMDB_IMAGE_BASE_URL: null, or the template
\* string `${baseUrl}/${size}${path}` as the list of its parts.
getOptimizedImageUrl(env, path, viewportWidth) ==
    LET baseUrl == IF Falsy(env) THEN Str("https://image.tmdb.org/t/p") ELSE env
    IN  IF Falsy(path) THEN Null
        ELSE <<baseUrl, "/", ImageSize(viewportWidth), path>>

-----------------------------------------------------------------------------
\* debounce and throttle.  A timer of the runtime is [id, callback, args,
\* due]: the handle setTimeout returned, which arrow function it runs ("func"
\* for () => func(...args), "reset" for () => (inThrottle = false)), the
\* args the arrow closed over, and the time before which the runtime does
\* not run it.  The runtime runs a timer at its due time or later, whenever
\* it next takes a task: never earlier, and never while other code runs.

\* What the closures are seen doing: [ev, args, at].
Event(ev, args, t) == [ev |-> ev, args |-> args, at |-> t]

\* setTimeout(callback, delay) at time t, seq being the last handle given
setTimeout(table, seq, callback, args, delay, t) ==
    table \cup {[id |-> seq + 1, callback |-> callback, args |-> args, due |-> t + delay]}

\* clearTimeout(id): nothing happens for undefined or a timer that has run
clearTimeout(table, id) == {timer \in table : timer.id # id}

\* debounced that leaves the earlier timer set
debouncedWithoutClear(table, id, seq, delay, args, t) ==
    [timers |-> setTimeout(table, seq, "func", args, delay, t),
     timeoutId |-> seq + 1,
     timerSeq |-> seq + 1]

\* debounced(...args) at time t
\*   clearTimeout(timeoutId)
\*   timeoutId = setTimeout(() => func(...args), delay)
debounced(table, id, seq, delay, args, t) ==
    [timers |-> setTimeout(clearTimeout(table, id), seq, "func", args, delay, t),
     timeoutId |-> seq + 1,
     timerSeq |-> seq + 1]

\* throttled(...args) at time t
\*   if (!inThrottle) { func(...args); inThrottle = true;
\*                      setTimeout(() => (inThrottle = false), limit) }
throttled(table, flag, seq, limit, args, t) ==
    IF ~flag
    THEN [invoked |-> <<Event("throttle.func", args, t)>>,
          inThrottle |-> TRUE,
          timers |-> setTimeout(table, seq, "reset", <<>>, limit, t),
          timerSeq |-> seq + 1]
    ELSE [invoked |-> <<>>,
          inThrottle |-> flag,
          timers |-> table,
          timerSeq |-> seq]

-----------------------------------------------------------------------------
\* Inputs

Actions == {"like", "dislike", "skip"}

Movie(id, genre_ids, vote_average, release_year, popularity, original_language) ==
    [id |-> id, genre_ids |-> genre_ids, vote_average |-> vote_average,
     release_year |-> release_year, popularity |-> popularity,
     original_language |-> original_language]

Action28 == Movie(1, <<28>>, 90, 2020, 50, "en")

ActionComedy == Movie(2, <<28, 35>>, 80, 2020, 50, "en")

Comedy35 == Movie(3, <<35>>, 70, 2020, 50, "en")

\* The movies the user swipes on.
Movies == {Action28, ActionComedy, Comedy35}

\* Profiles a caller hands to savePreferences (new objects, as the POST
\* handler of /api/preferences builds them from the request body).
CallerProfiles ==
    {[favoriteGenres |-> <<28>>, dislikedGenres |-> <<>>, minimumRating |-> <<60, 1>>,
      languages |-> <<"en">>, lastUpdated |-> 0],
     [favoriteGenres |-> <<28, 35, 12>>, dislikedGenres |-> <<18>>,
      minimumRating |-> <<75, 1>>, languages |-> <<"en", "fr">>, lastUpdated |-> 0]}

-----------------------------------------------------------------------------
\* What an earlier page session left in localStorage.  The stored state is
\* computed by running saveInteraction over the session's swipes, with
\* storage working; a new page load starts from that storage and from a
\* newly evaluated DEFAULT_PREFERENCES.

\* The i-th swipe of a long session: eight likes, then skips and dislikes.
LongSession(i) ==
    IF i <= 4 THEN <<Action28, "like">>
    ELSE IF i <= 8 THEN <<Comedy35, "like">>
    ELSE IF i % 3 = 0 THEN <<Comedy35, "dislike">>
    ELSE <<ActionComedy, "skip">>

\* The i-th swipe of a short session: likes rated 9, 9, 8, 8.
ShortSession(i) == IF i <= 2 THEN <<Action28, "like">> ELSE <<ActionComedy, "like">>

\* The state after the swipes i..j of the n swipes session[1..n], from
\* `state`.  The range is halved and the first half's state computed before
\* the second is entered, which keeps the evaluation shallow.
RECURSIVE Replay(_, _, _, _, _)
Replay(session, n, state, i, j) ==
    IF i > j THEN state
    ELSE IF i = j
    THEN saveInteraction(state.ls, state.def, "ok", i - n, session[i][1], session[i][2])
    ELSE LET mid == (i + j) \div 2
         IN  CHOOSE s \in {Replay(session, n, half, mid + 1, j) :
                              half \in {Replay(session, n, state, i, mid)}} : TRUE

NewSession == [ls |-> EmptyStorage, def |-> DefaultLiteral]

ShortStorage ==
    Replay([i \in 1..4 |-> ShortSession(i)], 4, NewSession, 1, 4).ls

LongStorage ==
    Replay([i \in 1..PriorLen |-> LongSession(i)], PriorLen, NewSession, 1, PriorLen).ls

-----------------------------------------------------------------------------
\* Inputs of the score

GenreLists == {<<28>>, <<28, 35>>, <<28, 35, 12, 18>>}

\* vote_average, release year, popularity, original_language
Attributes ==
    {<<80, 2020, 50, "en">>,
     <<55, 2000, 250, "ja">>,
     <<60, 2026, 0, "en">>,
     <<0, 2004, 100, "fr">>,
     <<100, 2026, 250, "en">>}

ScoreMovies == {Movie(7, g, a[1], a[2], a[3], a[4]) : g \in GenreLists, a \in Attributes}

ScoreProfiles ==
    CallerProfiles \cup
    {DefaultLiteral,
     [favoriteGenres |-> <<12>>, dislikedGenres |-> <<28, 35>>,
      minimumRating |-> <<220, 3>>, languages |-> <<"fr", "en">>, lastUpdated |-> 0]}

ZeroWeights ==
    [genre |-> 0, rating |-> 0, recency |-> 0, popularity |-> 0, language |-> 0]

HeavyWeights ==
    [genre |-> 300, rating |-> 100, recency |-> 250, popularity |-> 0, language |-> 100]

ScoreWeights == {DEFAULT_WEIGHTS, ZeroWeights, HeavyWeights}

-----------------------------------------------------------------------------
\* The state machine

\* What a call left: its name, whether it threw to its caller, its
\* arguments, what it returned and the time it was made.  `previous` is
\* filled by the score alone: the result and the time of the call made
\* immediately before, if that was the same call with the same arguments.
Returned(op, threw, args, value, t) ==
    [op |-> op, threw |-> threw, args |-> args, value |-> value, at |-> t,
     previous |-> <<>>]

\* debounce(func, delay) and throttle(func, limit) have been called once
\* each: the closures are new, "let timeoutId" and "let inThrottle" hold
\* undefined (0 stands for no handle; undefined is falsy, as FALSE is, and
\* !inThrottle is the closure's only reading of it), and no timer is set.
UtilsLoaded ==
    /\ timeoutId = 0
    /\ inThrottle = FALSE
    /\ timers = {}
    /\ timerSeq = 0
    /\ events = <<>>

\* A page load: the module-level objects are new, localStorage holds what
\* earlier sessions left.
PageLoad(storages) ==
    /\ localStorage \in storages
    /\ DEFAULT_PREFERENCES = DefaultLiteral
    /\ mode = "ok"
    /\ now = 0
    /\ ret = Returned("none", FALSE, <<>>, <<>>, 0)
    /\ movieCache = <<>>
    /\ UtilsLoaded

Init == PageLoad({EmptyStorage, ShortStorage, LongStorage})

SaveInteraction(movie, action) ==
    /\ now < MaxOps
    /\ LET r == saveInteraction(localStorage, DEFAULT_PREFERENCES, mode, now, movie, action)
       IN  /\ localStorage' = r.ls
           /\ DEFAULT_PREFERENCES' = r.def
    /\ now' = now + 1
    /\ ret' = Returned("saveInteraction", FALSE, <<movie, action>>, <<>>, now)
    /\ UNCHANGED <<mode, movieCache, utilVars>>

SavePreferences(p) ==
    /\ now < MaxOps
    /\ LET r == savePreferences(localStorage, DEFAULT_PREFERENCES, mode, now,
                                [ref |-> "caller", value |-> p])
       IN  /\ localStorage' = r.ls
           /\ DEFAULT_PREFERENCES' = r.def
    /\ now' = now + 1
    /\ ret' = Returned("savePreferences", FALSE, <<p>>, <<>>, now)
    /\ UNCHANGED <<mode, movieCache, utilVars>>

GetPreferences ==
    /\ ret' = Returned("getPreferences", FALSE, <<>>,
                       getPreferences(localStorage, DEFAULT_PREFERENCES, mode).value, now)
    /\ UNCHANGED <<localStorage, DEFAULT_PREFERENCES, mode, now, movieCache, utilVars>>

ResetPreferences ==
    /\ LET r == resetPreferences(localStorage, mode)
       IN  /\ localStorage' = r.ls
           /\ ret' = Returned("resetPreferences", r.threw, <<>>, <<>>, now)
    /\ UNCHANGED <<DEFAULT_PREFERENCES, mode, now, movieCache, utilVars>>

GetStatistics ==
    /\ ret' = Returned("getStatistics", FALSE, <<>>,
                       getStatistics(localStorage, DEFAULT_PREFERENCES, mode), now)
    /\ UNCHANGED <<localStorage, DEFAULT_PREFERENCES, mode, now, movieCache, utilVars>>

\* The preference store in a browser whose localStorage works.
Next ==
    \/ \E movie \in Movies, action \in Actions : SaveInteraction(movie, action)
    \/ \E p \in CallerProfiles : SavePreferences(p)
    \/ GetPreferences
    \/ ResetPreferences
    \/ GetStatistics

Spec == Init /\ [][Next]_vars

-----------------------------------------------------------------------------
\* The environment of localStorage

Modes == {"ok", "full", "denied"}

\* The quota runs out, the user refuses or allows storage.
SetMode(m) ==
    /\ m # mode
    /\ mode' = m
    /\ UNCHANGED <<localStorage, DEFAULT_PREFERENCES, now, ret, movieCache, utilVars>>

\* Something else writes text that is no JSON under one of the keys.
Corrupt(key) ==
    /\ localStorage[key] # Garbage
    /\ localStorage' = [localStorage EXCEPT ![key] = Garbage]
    /\ UNCHANGED <<DEFAULT_PREFERENCES, mode, now, ret, movieCache, utilVars>>

\* The preference store in a browser whose localStorage may fail.
NextFault ==
    \/ Next
    \/ \E m \in Modes : SetMode(m)
    \/ \E key \in Keys : Corrupt(key)

InitFault == PageLoad({EmptyStorage, ShortStorage})

SpecFault == InitFault /\ [][NextFault]_vars

-----------------------------------------------------------------------------
\* The score

ScoreArgs(movie, preferences, weights) ==
    [movie |-> movie, preferences |-> preferences, weights |-> weights]

\* The record a score call leaves, given its arguments as written by the caller.
Scored(args, value) ==
    [Returned("calculateRecommendationScore", FALSE, args, value, now) EXCEPT
        !.previous = IF ret.op = "calculateRecommendationScore" /\ ret.args = args
                     THEN <<ret.value, ret.at>>
                     ELSE <<>>]

\* calculateRecommendationScore(movie, preferences, weights)
CalculateRecommendationScore(movie, preferences, weights) ==
    /\ ret' = Scored(ScoreArgs(movie, <<preferences>>, <<weights>>),
                     calculateRecommendationScore(movie, preferences, weights, now))
    /\ UNCHANGED <<localStorage, DEFAULT_PREFERENCES, mode, now, movieCache, utilVars>>

\* calculateRecommendationScore(movie): preferences defaults to
\* this.getPreferences(), weights to DEFAULT_WEIGHTS.
CalculateWithDefaults(movie) ==
    /\ ret' = Scored(ScoreArgs(movie, <<>>, <<>>),
                     calculateRecommendationScore(
                         movie,
                         getPreferences(localStorage, DEFAULT_PREFERENCES, mode).value,
                         DEFAULT_WEIGHTS, now))
    /\ UNCHANGED <<localStorage, DEFAULT_PREFERENCES, mode, now, movieCache, utilVars>>

\* Time passes.
Tick ==
    /\ now < MaxOps
    /\ now' = now + 1
    /\ UNCHANGED <<localStorage, DEFAULT_PREFERENCES, mode, ret, movieCache, utilVars>>

InitScore == PageLoad({EmptyStorage, ShortStorage})

NextScore ==
    \/ \E movie \in ScoreMovies, preferences \in ScoreProfiles, weights \in ScoreWeights :
           CalculateRecommendationScore(movie, preferences, weights)
    \/ \E movie \in ScoreMovies : CalculateWithDefaults(movie)
    \/ Tick

SpecScore == InitScore /\ [][NextScore]_vars

-----------------------------------------------------------------------------
\* The score under weights that let one factor through: genre alone, rating
\* alone, recency alone, and recency at half weight (a recency above 1 then
\* shows in the score).

GenreOnly ==
    [genre |-> 100, rating |-> 0, recency |-> 0, popularity |-> 0, language |-> 0]

RatingOnly ==
    [genre |-> 0, rating |-> 100, recency |-> 0, popularity |-> 0, language |-> 0]

RecencyHalf ==
    [genre |-> 0, rating |-> 0, recency |-> 50, popularity |-> 0, language |-> 0]

RecencyOnly ==
    [genre |-> 0, rating |-> 0, recency |-> 100, popularity |-> 0, language |-> 0]

FactorWeights == {GenreOnly, RatingOnly, RecencyOnly, RecencyHalf}

NextFactor ==
    \/ \E movie \in ScoreMovies, preferences \in ScoreProfiles, weights \in FactorWeights :
           CalculateRecommendationScore(movie, preferences, weights)
    \/ Tick

SpecFactor == InitScore /\ [][NextFactor]_vars

-----------------------------------------------------------------------------
\* Swipes alone, from the default profile or from the swipes of an earlier
\* session, on movies one of which lists a genre twice and is rated 10, and
\* one of which is rated 0.

Sequel == Movie(4, <<35, 28, 35>>, 100, 2020, 50, "en")

Flop == Movie(5, <<18>>, 0, 2020, 50, "en")

SwipeMovies == Movies \cup {Sequel, Flop}

InitSwipes == PageLoad({EmptyStorage, ShortStorage, LongStorage})

NextSwipes == \E movie \in SwipeMovies, action \in Actions : SaveInteraction(movie, action)

SpecSwipes == InitSwipes /\ [][NextSwipes]_vars

-----------------------------------------------------------------------------
\* Swipes on a log whose likes are its oldest records, about to fall out.

\* The i-th swipe of a session that opened with six likes, rated 9, 9, 9,
\* 7, 7, 7, and went on with skips.
FadingSession(i) ==
    IF i <= 3 THEN <<Action28, "like">>
    ELSE IF i <= 6 THEN <<Comedy35, "like">>
    ELSE <<ActionComedy, "skip">>

\* What that session left after PriorLen + 2 swipes: the first like, at
\* least, is no longer in the log.
FadedStorage ==
    Replay([i \in 1..(PriorLen + 2) |-> FadingSession(i)], PriorLen + 2,
           NewSession, 1, PriorLen + 2).ls

InitLog == PageLoad({LongStorage, FadedStorage})

SpecLog == InitLog /\ [][NextSwipes]_vars

-----------------------------------------------------------------------------
\* The route handlers of /api/preferences.  They run on the server, where
\* typeof window === 'undefined'; DEFAULT_PREFERENCES is then the object of
\* the server's module instance.

\* Profiles a client sends in the body of a POST.
BodyProfiles ==
    CallerProfiles \cup
    {[favoriteGenres |-> f, dislikedGenres |-> d, minimumRating |-> r,
      languages |-> l, lastUpdated |-> 0] :
         f \in GenreLists \cup {<<>>},
         d \in {<<>>, <<18>>},
         r \in {<<50, 1>>, <<60, 1>>, <<75, 1>>},
         l \in {<<"en">>, <<"en", "fr">>}}

\* Request bodies: the JSON text of a profile, or text that is no JSON.
ServerBodies == {Json(StringifyPreferences(p)) : p \in BodyProfiles} \cup {Garbage}

\* NextResponse.json(body, {status})
Response(status, body) == [status |-> status, body |-> body]

\* POST /api/preferences: request.json() throws on a body that is no JSON.
POST(request) ==
    /\ ret' = Returned("POST", FALSE, <<request>>,
                 IF request.kind = "json"
                 THEN Response(200, [success |-> TRUE, preferences |-> request.v])
                 ELSE Response(500, [error |-> "Failed to update preferences"]),
                 now)
    /\ LET r == savePreferences(localStorage, DEFAULT_PREFERENCES, mode, now,
                                [ref |-> "caller", value |-> request.v])
       IN  IF request.kind = "json"
           THEN localStorage' = r.ls /\ DEFAULT_PREFERENCES' = r.def
           ELSE UNCHANGED <<localStorage, DEFAULT_PREFERENCES>>
    /\ UNCHANGED <<mode, now, movieCache, utilVars>>

\* GET /api/preferences
GET ==
    /\ ret' = Returned("GET", FALSE, <<>>,
                 Response(200, StringifyPreferences(
                     getPreferences(localStorage, DEFAULT_PREFERENCES, mode).value)),
                 now)
    /\ UNCHANGED <<localStorage, DEFAULT_PREFERENCES, mode, now, movieCache, utilVars>>

InitServer ==
    /\ localStorage = EmptyStorage
    /\ DEFAULT_PREFERENCES = DefaultLiteral
    /\ mode = "server"
    /\ now = 0
    /\ ret = Returned("none", FALSE, <<>>, <<>>, 0)
    /\ movieCache = <<>>
    /\ UtilsLoaded

NextServer ==
    \/ \E request \in ServerBodies : POST(request)
    \/ GET
    \/ Tick

SpecServer == InitServer /\ [][NextServer]_vars

-----------------------------------------------------------------------------
\* The movie cache of a page

\* The cache after cacheMovie(1, ..), .., cacheMovie(n, ..), called earlier
\* in the page session at the times before 0.
RECURSIVE CachedUpTo(_)
CachedUpTo(n) ==
    IF n = 0 THEN <<>>
    ELSE CHOOSE c \in {cacheMovie(before, n, Str("a"), n - CachedBefore - 1) :
                          before \in {CachedUpTo(n - 1)}} : TRUE

\* Ids cacheMovie and getCachedMovie are called with: the two oldest cached
\* and two not cached.
CacheIds == {1, 2, CachedBefore + 1, CachedBefore + 2}

\* Values cacheMovie is called with: one that is truthy and one that is not.
CacheData == {Str("b"), Str("")}

CacheMovie(movieId, movieData) ==
    /\ now < MaxCacheOps
    /\ movieCache' = cacheMovie(movieCache, movieId, movieData, now)
    /\ now' = now + 1
    /\ ret' = Returned("cacheMovie", FALSE, <<movieId, movieData>>, <<>>, now)
    /\ UNCHANGED <<localStorage, DEFAULT_PREFERENCES, mode, utilVars>>

GetCachedMovie(movieId) ==
    /\ ret' = Returned("getCachedMovie", FALSE, <<movieId>>,
                       getCachedMovie(movieCache, movieId), now)
    /\ UNCHANGED <<localStorage, DEFAULT_PREFERENCES, mode, now, movieCache, utilVars>>

ClearCache ==
    /\ movieCache' = clearCache(movieCache)
    /\ ret' = Returned("clearCache", FALSE, <<>>, <<>>, now)
    /\ UNCHANGED <<localStorage, DEFAULT_PREFERENCES, mode, now, utilVars>>

Cleanup ==
    /\ movieCache' = cleanup(movieCache)
    /\ ret' = Returned("cleanup", FALSE, <<>>, <<>>, now)
    /\ UNCHANGED <<localStorage, DEFAULT_PREFERENCES, mode, now, utilVars>>

InitCache ==
    /\ localStorage = EmptyStorage
    /\ DEFAULT_PREFERENCES = DefaultLiteral
    /\ mode = "ok"
    /\ now = 0
    /\ ret = Returned("none", FALSE, <<>>, <<>>, 0)
    /\ movieCache \in {<<>>, CachedUpTo(CachedBefore)}
    /\ UtilsLoaded

NextCache ==
    \/ \E movieId \in CacheIds, movieData \in CacheData : CacheMovie(movieId, movieData)
    \/ \E movieId \in CacheIds : GetCachedMovie(movieId)
    \/ ClearCache
    \/ Cleanup

SpecCache == InitCache /\ [][NextCache]_vars

-----------------------------------------------------------------------------
\* Image URLs

\* Values of process.env.NEXT_PUBLIC_TMDB_IMAGE_BASE_URL: not set, empty, set.
BaseUrls == {Undefined, Str(""), Str("https://img.example/t/p")}

\* poster_path and backdrop_path of a movie: string | null
Paths == {Null, Str(""), Str("/poster.jpg"), Str("/backdrop.jpg")}

\* Viewport widths, those next to 640 and 1280 among them.
Widths ==
    {0, 320, 480, 768, 1000, 1024, 1440, 1920, 3840} \cup (638..642) \cup (1278..1282)

GetOptimizedImageUrl(env, path, viewportWidth) ==
    /\ ret' = Returned("getOptimizedImageUrl", FALSE, <<path, viewportWidth>>,
                       getOptimizedImageUrl(env, path, viewportWidth), now)
    /\ UNCHANGED <<localStorage, DEFAULT_PREFERENCES, mode, now, movieCache, utilVars>>

NextImage ==
    \E env \in BaseUrls, path \in Paths, viewportWidth \in Widths :
        GetOptimizedImageUrl(env, path, viewportWidth)

SpecImage == PageLoad({EmptyStorage}) /\ [][NextImage]_vars

-----------------------------------------------------------------------------
\* The page calling debounced and throttled while time passes and the
\* runtime runs the timers that are due.

\* debounce(func, delay) and throttle(func, limit) as the page made them
delay == 2

limit == 2

\* Arguments of the calls
CallArgs == {<<"a">>, <<"b">>}

CallsMade == Cardinality({k \in 1..Len(events) : events[k].ev \in {"debounced", "throttled"}})

\* A call is made while calls are left and its timer can come due before
\* the clock of the model stops.
Debounced(args) ==
    /\ CallsMade < MaxCalls
    /\ now + delay <= MaxTime
    /\ LET r == debounced(timers, timeoutId, timerSeq, delay, args, now)
       IN  /\ timers' = r.timers
           /\ timeoutId' = r.timeoutId
           /\ timerSeq' = r.timerSeq
    /\ events' = Append(events, Event("debounced", args, now))
    /\ ret' = Returned("debounced", FALSE, args, Undefined, now)
    /\ UNCHANGED <<localStorage, DEFAULT_PREFERENCES, mode, now, movieCache, inThrottle>>

Throttled(args) ==
    /\ CallsMade < MaxCalls
    /\ now + limit <= MaxTime
    /\ LET r == throttled(timers, inThrottle, timerSeq, limit, args, now)
       IN  /\ timers' = r.timers
           /\ inThrottle' = r.inThrottle
           /\ timerSeq' = r.timerSeq
           /\ events' = Append(events, Event("throttled", args, now)) \o r.invoked
    /\ ret' = Returned("throttled", FALSE, args, Undefined, now)
    /\ UNCHANGED <<localStorage, DEFAULT_PREFERENCES, mode, now, movieCache, timeoutId>>

\* The runtime runs () => func(...args) of a timer that is due.
RunFunc ==
    \E timer \in timers :
        /\ timer.callback = "func"
        /\ timer.due <= now
        /\ timers' = timers \ {timer}
        /\ events' = Append(events, Event("debounce.func", timer.args, now))
        /\ UNCHANGED <<localStorage, DEFAULT_PREFERENCES, mode, now, ret, movieCache,
                       timeoutId, inThrottle, timerSeq>>

\* The runtime runs () => (inThrottle = false) of a timer that is due.
RunReset ==
    \E timer \in timers :
        /\ timer.callback = "reset"
        /\ timer.due <= now
        /\ timers' = timers \ {timer}
        /\ inThrottle' = FALSE
        /\ UNCHANGED <<localStorage, DEFAULT_PREFERENCES, mode, now, ret, movieCache,
                       timeoutId, timerSeq, events>>

\* A millisecond passes.
Elapse ==
    /\ now < MaxTime
    /\ now' = now + 1
    /\ UNCHANGED <<localStorage, DEFAULT_PREFERENCES, mode, ret, movieCache, utilVars>>

NextTimers ==
    \/ \E args \in CallArgs : Debounced(args)
    \/ \E args \in CallArgs : Throttled(args)
    \/ RunFunc
    \/ RunReset
    \/ Elapse

\* Time passes, and a timer that is due is run in the end.
SpecTimers ==
    /\ PageLoad({EmptyStorage})
    /\ [][NextTimers]_vars
    /\ WF_vars(Elapse)
    /\ WF_vars(RunFunc)
    /\ WF_vars(RunReset)

-----------------------------------------------------------------------------
\* Properties

Genres == {12, 18, 28, 35}

\* What getPreferences would return now, and the log getInteractions would.
Loaded == getPreferences(localStorage, DEFAULT_PREFERENCES, mode).value

StoredLog == getInteractions(localStorage, mode)

InBoth(p) ==
    \E g \in Genres : Includes(p.favoriteGenres, g) /\ Includes(p.dislikedGenres, g)

\* The default profile as documented: empty genre sets, minimumRating 6.0,
\* languages ["en"].
IsDocumentedDefault(p) ==
    /\ p.favoriteGenres = <<>>
    /\ p.dislikedGenres = <<>>
    /\ p.minimumRating = <<60, 1>>
    /\ p.languages = <<"en">>

\* The step just taken was saveInteraction(ret.args[1], ret.args[2]).
Swiped == ret.op = "saveInteraction"

\* C1: no genre is both in favoriteGenres and in dislikedGenres, neither in
\* the stored profile nor in the object getPreferences falls back to.
C1_NoGenreInBoth ==
    /\ ~InBoth(DEFAULT_PREFERENCES)
    /\ localStorage[STORAGE_KEY].kind = "json"
           => ~InBoth(ParsePreferences(localStorage[STORAGE_KEY].v))

\* C1 witness: a like on a movie one of whose genres is disliked and another
\* of whose genres has become a favorite.
C1_LikeOnDislikedGenre ==
    /\ Swiped
    /\ ret.args[2] = "like"
    /\ \E g \in Genres :
           Includes(ret.args[1].genre_ids, g) /\ Includes(Loaded.dislikedGenres, g)
    /\ \E g \in Genres :
           Includes(ret.args[1].genre_ids, g) /\ Includes(Loaded.favoriteGenres, g)

\* C2 as claimed: getPreferences called right after resetPreferences returns
\* the documented default.
C2_ResetThenLoadGivesDefault ==
    [][(/\ ret.op = "resetPreferences"
        /\ ~ret.threw
        /\ ret'.op = "getPreferences") => IsDocumentedDefault(ret'.value)]_vars

\* C3: the stored interaction log never has more than 100 entries.
C3_LogAtMost100 == Len(StoredLog) <= 100

\* C3 witness: a swipe on a full log; what was the second oldest record, or
\* a later one, is now the last of 100.
C3_FullLogSwiped ==
    /\ Swiped
    /\ Len(StoredLog) = 100
    /\ StoredLog[100].timestamp > 1 - PriorLen

\* The record saveInteraction(movie, action) builds at time t.
Record(movie, action, t) ==
    [movieId |-> movie.id, action |-> action, timestamp |-> t,
     genres |-> movie.genre_ids, rating |-> movie.vote_average]

\* C4: a swipe puts its record first, keeps the records stored before in
\* their order behind it, and drops only what falls at index 100 or beyond.
C4_NewestFirst ==
    [][(now' = now + 1 /\ ret'.op = "saveInteraction") =>
          LET old == StoredLog
              new == StoredLog'
          IN  /\ Len(new) = Min(Len(old) + 1, 100)
              /\ new[1] = Record(ret'.args[1], ret'.args[2], now)
              /\ \A k \in 2..Len(new) : new[k] = old[k - 1]]_vars

\* C4 witness: after a swipe on a full log the log is full, its first record
\* is the swipe and the oldest record has been dropped.
C4_Overflowed ==
    /\ Swiped
    /\ Len(StoredLog) = 100
    /\ StoredLog[1] = Record(ret.args[1], ret.args[2], now - 1)
    /\ StoredLog[2].timestamp = now - 2
    /\ StoredLog[100].timestamp = 2 - PriorLen

\* g is disliked and no favorite.
Disliked(g) ==
    Includes(Loaded.dislikedGenres, g) /\ ~Includes(Loaded.favoriteGenres, g)

\* C5: a dislike on a movie with genre g leaves g disliked and no favorite,
\* and every later swipe keeps it so.
C5_DislikeStays ==
    [][(now' = now + 1 /\ ret'.op = "saveInteraction") =>
          \A g \in Genres :
              (\/ Disliked(g)
               \/ ret'.args[2] = "dislike" /\ Includes(ret'.args[1].genre_ids, g))
                  => Disliked(g)']_vars

\* C5 witness: a like on a movie with a genre that was a favorite and was
\* disliked in this session; the genre is still disliked.
C5_LikeAfterDislike ==
    /\ Swiped
    /\ ret.args[2] = "like"
    /\ \E g \in Genres :
           /\ Includes(ret.args[1].genre_ids, g)
           /\ Disliked(g)
           /\ \E k \in 1..Len(StoredLog) :
                  /\ StoredLog[k].action = "dislike"
                  /\ StoredLog[k].timestamp >= 0
                  /\ Includes(StoredLog[k].genres, g)
           /\ \E k \in 1..Len(StoredLog) :
                  /\ StoredLog[k].action = "like"
                  /\ StoredLog[k].timestamp < 0
                  /\ Includes(StoredLog[k].genres, g)

Likes(log) == SelectSeq(log, LAMBDA i : i.action = "like")

Ratings(log) == [k \in 1..Len(log) |-> log[k].rating]

RECURSIVE Sum(_)
Sum(s) == IF s = <<>> THEN 0 ELSE Head(s) + Sum(Tail(s))

\* C6: after a like, with more than 5 likes in the log (the new one counted)
\* minimumRating is max(5.0, average rating of the likes - 1); with 5 or
\* fewer it is what it was.  Likes rated 9, 9, 8, 8, 7 leave the 6.0 of the
\* default and a sixth rated 7 gives 7.0.
C6_MinimumRating ==
    [][(now' = now + 1 /\ ret'.op = "saveInteraction" /\ ret'.args[2] = "like") =>
          LET ratings == Ratings(Likes(StoredLog'))
              n == Len(ratings)
              min == Loaded'.minimumRating
          IN  /\ n > 5 => min[1] * n = min[2] * Max(50 * n, Sum(ratings) - 10 * n)
              /\ n <= 5 => min = Loaded.minimumRating
              /\ (ratings = <<70, 80, 80, 90, 90>> /\ Loaded.minimumRating = <<60, 1>>)
                     => min = <<60, 1>>
              /\ ratings = <<70, 70, 80, 80, 90, 90>> => min = <<70, 1>>]_vars

\* C6 witness: the sixth of the likes rated 9, 9, 8, 8, 7, 7 has been made
\* and minimumRating is 7.0.
C6_SixLikes ==
    /\ Swiped
    /\ ret.args[2] = "like"
    /\ Ratings(Likes(StoredLog)) = <<70, 70, 80, 80, 90, 90>>
    /\ Loaded.minimumRating = <<70, 1>>

IsScore == ret.op = "calculateRecommendationScore"

\* C7: the score lies in [0,1].
C7_ScoreInUnitInterval ==
    IsScore => ret.value.score >= 0 /\ ret.value.score <= 20000

\* The weighted sum before the final clamp, from the call's arguments.
Effective(args) ==
    [movie |-> args.movie,
     preferences |-> IF args.preferences = <<>> THEN Loaded ELSE args.preferences[1],
     weights |-> IF args.weights = <<>> THEN DEFAULT_WEIGHTS ELSE args.weights[1]]

Matches(genre_ids, list) ==
    Cardinality({k \in 1..Len(genre_ids) : Includes(list, genre_ids[k])})

WeightedSum(movie, p, w, year) ==
    LET f == Matches(movie.genre_ids, p.favoriteGenres)
        d == Matches(movie.genre_ids, p.dislikedGenres)
        genreFactor == Max(0, Min(200, 100 + 40 * f) - 60 * d)
        full == Min(200, 2 * movie.vote_average)
        ratingFactor ==
            IF movie.vote_average * p.minimumRating[2] >= p.minimumRating[1]
            THEN 2 * full ELSE full
        recencyFactor == Max(0, 200 - 10 * (year - movie.release_year))
        popularityFactor == Min(200, 2 * movie.popularity)
        languageFactor == IF Includes(p.languages, movie.original_language) THEN 200 ELSE 60
    IN  \* the rating factor is counted in 1/400 here, the sum in 1/40000
        2 * (w.genre * genreFactor + w.recency * recencyFactor
             + w.popularity * popularityFactor + w.language * languageFactor)
        + w.rating * ratingFactor

\* C7 witness: a score whose weighted sum exceeds 1 and was cut to 1.
C7_SumAboveOne ==
    /\ IsScore
    /\ ret.value.score = 20000
    /\ LET a == Effective(ret.args)
       IN  WeightedSum(a.movie, a.preferences, a.weights, 2024 + (ret.at \div TicksPerYear))
               > 40000

\* C8 as claimed: two calls in a row with the same arguments, nothing but
\* time between them, return the same result.
C8_SameArgumentsSameResult ==
    (IsScore /\ ret.previous # <<>>) => ret.value = ret.previous[1]

SameYear(t1, t2) == t1 \div TicksPerYear = t2 \div TicksPerYear

\* C8 amended: two calls in a row with the same arguments made in the same
\* calendar year return the same result.
C8_SameArgumentsSameYearSameResult ==
    (IsScore /\ ret.previous # <<>> /\ SameYear(ret.previous[2], ret.at))
        => ret.value = ret.previous[1]

\* C8 witness: the same call made twice, at two times of the same year, of
\* a movie whose recency counts for the score.
C8_CalledTwiceInAYear ==
    /\ IsScore
    /\ ret.previous # <<>>
    /\ ret.previous[2] # ret.at
    /\ SameYear(ret.previous[2], ret.at)
    /\ ret.value.score > 0
    /\ ret.value.score < 20000
    /\ ret.args.movie.release_year = 2020

ExampleArgs ==
    ScoreArgs(Movie(7, <<28>>, 80, 2020, 50, "en"),
              << [favoriteGenres |-> <<28>>, dislikedGenres |-> <<>>,
                  minimumRating |-> <<60, 1>>, languages |-> <<"en">>,
                  lastUpdated |-> 0] >>,
              << [genre |-> 40, rating |-> 20, recency |-> 15, popularity |-> 15,
                  language |-> 10] >>)

\* C9: the score is the weighted sum of the five factors cut to [0,1], the
\* reference year being the year of the call; the example scores 0.735 in 2024.
C9_WeightedSum ==
    IsScore =>
        LET a == Effective(ret.args)
            year == 2024 + (ret.at \div TicksPerYear)
            sum == WeightedSum(a.movie, a.preferences, a.weights, year)
        IN  /\ 2 * ret.value.score = Max(0, Min(40000, sum))
            /\ (ret.args = ExampleArgs /\ year = 2024) => ret.value.score = 14700

\* C9 witness: the example, scored in 2024.
C9_Example ==
    /\ IsScore
    /\ ret.args = ExampleArgs
    /\ ret.at \div TicksPerYear = 0
    /\ ret.value.score = 14700

C11_NoOperationThrows == ~ret.threw

\* C12: with storage working, getPreferences called right after
\* savePreferences(p) returns p's favoriteGenres, dislikedGenres,
\* minimumRating and languages, and lastUpdated is the time of the save.
C12_SaveThenLoad ==
    [][(ret.op = "savePreferences" /\ ret'.op = "getPreferences") =>
          LET p == ret.args[1]
              loaded == ret'.value
          IN  /\ loaded.favoriteGenres = p.favoriteGenres
              /\ loaded.dislikedGenres = p.dislikedGenres
              /\ loaded.minimumRating = p.minimumRating
              /\ loaded.languages = p.languages
              /\ loaded.lastUpdated = ret.at]_vars

\* C12 witness: a profile saved over the history of an earlier session, at
\* a time other than the one it carried, has been loaded.
C12_Loaded ==
    /\ ret.op = "getPreferences"
    /\ Len(StoredLog) > 0
    /\ ret.value.favoriteGenres = <<28, 35, 12>>
    /\ ret.value.dislikedGenres = <<18>>
    /\ ret.value.minimumRating = <<75, 1>>
    /\ ret.value.languages = <<"en", "fr">>
    /\ ret.value.lastUpdated = 1
    /\ now = 2

\* C13 as claimed: a GET that follows a POST answered with success returns
\* the favoriteGenres, dislikedGenres, minimumRating and languages of the
\* POST's body.
C13_PostThenGet ==
    [][(/\ ret.op = "POST"
        /\ ret.value.status = 200
        /\ ret'.op = "GET") =>
          LET p == ret.args[1].v
              got == ret'.value.body
          IN  /\ ret'.value.status = 200
              /\ got.favoriteGenres = p.favoriteGenres
              /\ got.dislikedGenres = p.dislikedGenres
              /\ got.minimumRating = p.minimumRating
              /\ got.languages = p.languages]_vars

\* The four fields of a profile that carry preferences.
Fields(p) == <<p.favoriteGenres, p.dislikedGenres, p.minimumRating, p.languages>>

\* C14: a skip leaves favoriteGenres, dislikedGenres, minimumRating and
\* languages of the profile as they were and, when localStorage takes the
\* write, puts its record in front of the interaction log.
C14_SkipKeepsProfile ==
    [][(now' = now + 1 /\ ret'.op = "saveInteraction" /\ ret'.args[2] = "skip") =>
          /\ Fields(Loaded') = Fields(Loaded)
          /\ mode = "ok" =>
                 /\ Len(StoredLog') = Min(Len(StoredLog) + 1, 100)
                 /\ StoredLog'[1] = Record(ret'.args[1], "skip", now)
                 /\ \A k \in 2..Len(StoredLog') : StoredLog'[k] = StoredLog[k - 1]]_vars

\* C14 witness: a skip of a movie with two genres is the newest record of
\* the log, behind it the likes of an earlier session, and the profile still
\* has these likes' favorites and no disliked genre.
C14_Skipped ==
    /\ Swiped
    /\ ret.args[2] = "skip"
    /\ Len(ret.args[1].genre_ids) = 2
    /\ Len(StoredLog) = 5
    /\ StoredLog[1].action = "skip"
    /\ Loaded.favoriteGenres = <<28, 35>>
    /\ Loaded.dislikedGenres = <<>>

\* The number of records of the log with action a.
CountOf(log, a) == Cardinality({k \in 1..Len(log) : log[k].action = a})

\* C15: getStatistics returns the number of records of the log, in total
\* and per action, and the sizes of favoriteGenres and dislikedGenres of
\* the profile, and leaves localStorage and DEFAULT_PREFERENCES as they were.
C15_StatisticsPureRead ==
    [][(ret'.op = "getStatistics" /\ ret' # ret) =>
          /\ localStorage' = localStorage
          /\ DEFAULT_PREFERENCES' = DEFAULT_PREFERENCES
          /\ ret'.value.totalInteractions = Len(StoredLog)
          /\ ret'.value.likes = CountOf(StoredLog, "like")
          /\ ret'.value.dislikes = CountOf(StoredLog, "dislike")
          /\ ret'.value.skips = CountOf(StoredLog, "skip")
          /\ ret'.value.likes + ret'.value.dislikes + ret'.value.skips = Len(StoredLog)
          /\ ret'.value.favoriteGenres = Len(Loaded.favoriteGenres)
          /\ ret'.value.dislikedGenres = Len(Loaded.dislikedGenres)]_vars

\* C15 witness: statistics of a full log with likes, dislikes and skips in
\* different numbers, and a profile with a favorite and a disliked genre.
C15_FullLogCounted ==
    /\ ret.op = "getStatistics"
    /\ ret.value.totalInteractions = 100
    /\ ret.value.likes = 8
    /\ ret.value.dislikes > 8
    /\ ret.value.skips > ret.value.dislikes
    /\ ret.value.favoriteGenres = 1
    /\ ret.value.dislikedGenres = 1

NoRepeat(s) == \A i, j \in 1..Len(s) : s[i] = s[j] => i = j

\* C16: neither favoriteGenres nor dislikedGenres holds a genre twice, in
\* the profile getPreferences returns and in the DEFAULT_PREFERENCES object.
C16_NoDuplicateGenre ==
    /\ NoRepeat(Loaded.favoriteGenres)
    /\ NoRepeat(Loaded.dislikedGenres)
    /\ NoRepeat(DEFAULT_PREFERENCES.favoriteGenres)
    /\ NoRepeat(DEFAULT_PREFERENCES.dislikedGenres)

\* C16 witness: a movie whose genre list repeats a genre has been disliked
\* and then liked again, or liked and then disliked; each of its genres is
\* once in the list it went to.
C16_RepeatedGenreSwiped ==
    /\ Swiped
    /\ ~NoRepeat(ret.args[1].genre_ids)
    /\ Len(StoredLog) >= 2
    /\ StoredLog[2].genres = ret.args[1].genre_ids
    /\ StoredLog[2].action # "skip"
    /\ ret.args[2] # "skip"
    /\ Len(Loaded.favoriteGenres) + Len(Loaded.dislikedGenres) = 2

\* C17: over swipes on movies rated 0 to 10, minimumRating is in [0,10]; a
\* dislike or a skip leaves it as it was; a like leaves it as it was or,
\* with more than 5 likes in the log, sets it to max(5.0, their average - 1).
C17_MinimumRatingRule ==
    [][(now' = now + 1 /\ ret'.op = "saveInteraction") =>
          LET old == Loaded.minimumRating
              new == Loaded'.minimumRating
              ratings == Ratings(Likes(StoredLog'))
              n == Len(ratings)
          IN  /\ new[1] >= 0
              /\ new[1] <= 100 * new[2]
              /\ ret'.args[2] # "like" => new = old
              /\ ret'.args[2] = "like" =>
                     \/ n <= 5 /\ new = old
                     \/ n > 5 /\ new[1] * n = new[2] * Max(50 * n, Sum(ratings) - 10 * n)]_vars

\* C17 witness: a dislike made right after a like, of a movie rated 0, that
\* brought minimumRating from 7.0 to 55/9; it is still 55/9, although the
\* dislike pushed the oldest like out of the full log.
C17_DislikeAfterAdjustment ==
    /\ Swiped
    /\ ret.args[2] = "dislike"
    /\ Len(StoredLog) = 100
    /\ StoredLog[2].action = "like"
    /\ StoredLog[2].rating = 0
    /\ Len(Likes(StoredLog)) = 8
    /\ Loaded.minimumRating = <<550, 9>>

\* C19: the movie cache never holds more than 50 entries.
C19_CacheAtMost50 == Len(movieCache) <= 50

\* C19 witness: cacheMovie of a new id on a cache of 50 entries; the cache
\* has 50 entries, the new id the last and the oldest id gone.
C19_CachedOnFullCache ==
    /\ ret.op = "cacheMovie"
    /\ Len(movieCache) = 50
    /\ movieCache[50].id = ret.args[1]
    /\ movieCache[50].since = now - 1
    /\ movieCache[49].since = now - 2
    /\ ~MapHas(movieCache, 1)

\* The keys in the cache, each with the time it came in.
Residents(cache) == {<<cache[k].id, cache[k].since>> : k \in 1..Len(cache)}

\* The residents that came in before every other.
Earliest(cache) ==
    {r \in Residents(cache) : \A q \in Residents(cache) : r[2] <= q[2]}

\* C20: whatever cacheMovie removes from the cache is the key that came in
\* earliest of those present, whether or not it was read or cached again
\* since.
C20_EvictsEarliest ==
    [][(now' = now + 1 /\ ret'.op = "cacheMovie") =>
          /\ Residents(movieCache) \ Residents(movieCache') \subseteq Earliest(movieCache)
          /\ Cardinality(Residents(movieCache) \ Residents(movieCache')) <= 1]_vars

\* C20 witness: key 2 was cached again with a new value, two new keys
\* followed and the second of them made cacheMovie remove key 1; key 2 is
\* where it was, first in line now.
C20_RecachedKeyKeepsPlace ==
    /\ ret.op = "cacheMovie"
    /\ now = 3
    /\ Len(movieCache) = 50
    /\ ~MapHas(movieCache, 1)
    /\ movieCache[1].id = 2
    /\ movieCache[1].data = Str("b")
    /\ movieCache[1].since < 0
    /\ movieCache[49].since = 1
    /\ movieCache[50].since = 2

\* The arguments of the score call that has just returned.
ScoredMovie == Effective(ret.args).movie

ScoredProfile == Effective(ret.args).preferences

ScoredWeights == Effective(ret.args).weights

\* C22: the genre factor is max(0, min(1, 0.5 + 0.2 f) - 0.3 d), f and d
\* counting the movie's genres in favoriteGenres and in dislikedGenres; it
\* is 0.5 when f = d = 0.  (Under genre weight 1 and the others 0 the score
\* is the genre factor.)
C22_GenreFactor ==
    (IsScore /\ ScoredWeights = GenreOnly) =>
        LET f == Matches(ScoredMovie.genre_ids, ScoredProfile.favoriteGenres)
            d == Matches(ScoredMovie.genre_ids, ScoredProfile.dislikedGenres)
        IN  /\ ret.value.score = 100 * Max(0, Min(200, 100 + 40 * f) - 60 * d)
            /\ (f = 0 /\ d = 0) => ret.value.score = 10000

\* C22 witness: three favorite genres and one disliked genre match; the
\* factor is 1.0 - 0.3 = 0.7 and not 1.1 - 0.3.
C22_CapBeforePenalty ==
    /\ IsScore
    /\ ScoredWeights = GenreOnly
    /\ Matches(ScoredMovie.genre_ids, ScoredProfile.favoriteGenres) = 3
    /\ Matches(ScoredMovie.genre_ids, ScoredProfile.dislikedGenres) = 1
    /\ ret.value.score = 14000

\* s has an element whose first component is kind.
HasReason(s, kind) == \E k \in 1..Len(s) : s[k][1] = kind

\* C23: the rating factor is min(1, rating/10) when the rating is at least
\* minimumRating, equality included, and half of that otherwise; the rating
\* reason is given in the first case and in no other; a rating factor of 0
\* comes from a rating of 0 alone.  (Under rating weight 1 and the others 0
\* the score is the rating factor.)
C23_RatingFactor ==
    (IsScore /\ ScoredWeights = RatingOnly) =>
        LET rating == ScoredMovie.vote_average
            minimum == ScoredProfile.minimumRating
            atLeast == rating * minimum[2] >= minimum[1]
        IN  /\ atLeast => ret.value.score = 100 * Min(200, 2 * rating)
            /\ ~atLeast => 2 * ret.value.score = 100 * Min(200, 2 * rating)
            /\ HasReason(ret.value.reasons, "High rating") <=> atLeast
            /\ ret.value.score = 0 => rating = 0

\* C23 witness: a movie rated 6.0 scored for a profile whose minimumRating
\* is 6.0: the full 0.6 and the reason.
C23_RatingEqualsMinimum ==
    /\ IsScore
    /\ ScoredWeights = RatingOnly
    /\ ScoredMovie.vote_average = 60
    /\ ScoredProfile.minimumRating = <<60, 1>>
    /\ ret.value.score = 12000
    /\ HasReason(ret.value.reasons, "High rating")

\* C24: the recency factor is max(0, 1 - (currentYear - releaseYear)/20):
\* 0 for a movie 20 or more years old, above 1 for a release year after the
\* current year; the score is at most 1 all the same.  (Under recency weight
\* 0.5 and the others 0 the score is half the recency factor.)
C24_RecencyFactor ==
    IsScore =>
        LET age == 2024 + (ret.at \div TicksPerYear) - ScoredMovie.release_year
        IN  /\ ret.value.score <= 20000
            /\ ScoredWeights = RecencyHalf =>
                   /\ ret.value.score = 50 * Max(0, 200 - 10 * age)
                   /\ age >= 20 => ret.value.score = 0
                   /\ age < 0 => ret.value.score > 10000
            /\ (ScoredWeights = RecencyOnly /\ age < 0) => ret.value.score = 20000

\* C24 witness: a movie released after the year of the call; half its
\* recency factor is above 0.5.
C24_FutureRelease ==
    /\ IsScore
    /\ ScoredWeights = RecencyHalf
    /\ ScoredMovie.release_year > 2024 + (ret.at \div TicksPerYear)
    /\ ret.value.score > 10000

\* C25: reasons is, in this order, the favorite-genre reason if a genre of
\* the movie is a favorite, the disliked-genre reason if one is disliked,
\* the rating reason if the rating is at least minimumRating and the
\* language reason if the movie's language is one of the profile's; nothing
\* else is in it.
C25_Reasons ==
    IsScore =>
        LET f == Matches(ScoredMovie.genre_ids, ScoredProfile.favoriteGenres)
            d == Matches(ScoredMovie.genre_ids, ScoredProfile.dislikedGenres)
            minimum == ScoredProfile.minimumRating
        IN  ret.value.reasons =
                (IF f > 0 THEN << <<"Matches favorite genre(s)", f>> >> ELSE <<>>)
                \o (IF d > 0 THEN << <<"Contains disliked genre(s)", d>> >> ELSE <<>>)
                \o (IF ScoredMovie.vote_average * minimum[2] >= minimum[1]
                    THEN << <<"High rating", ScoredMovie.vote_average>> >> ELSE <<>>)
                \o (IF \E k \in 1..Len(ScoredProfile.languages) :
                           ScoredProfile.languages[k] = ScoredMovie.original_language
                    THEN << <<"Preferred language", ScoredMovie.original_language>> >>
                    ELSE <<>>)

\* C25 witness: a score with all four reasons, in their order.
C25_AllFourReasons ==
    /\ IsScore
    /\ Len(ret.value.reasons) = 4
    /\ ret.value.reasons[1][1] = "Matches favorite genre(s)"
    /\ ret.value.reasons[2][1] = "Contains disliked genre(s)"
    /\ ret.value.reasons[3][1] = "High rating"
    /\ ret.value.reasons[4][1] = "Preferred language"

\* C21 as claimed: getOptimizedImageUrl returns null for a null path and
\* otherwise a URL of size w300 for a width below 640, w500 for a width
\* from 640 to 1279 and w780 for a width of 1280 or more.
C21_ImageSizeRule ==
    ret.op = "getOptimizedImageUrl" =>
        LET path == ret.args[1]
            width == ret.args[2]
        IN  /\ path = Null => ret.value = Null
            /\ ret.value # Null =>
                   ret.value[3] = IF width < 640 THEN "w300"
                                  ELSE IF width < 1280 THEN "w500"
                                  ELSE "w780"

\* C28 as claimed: cacheMovie of an id that is in the cache gives the id
\* the new data and leaves every other id in the cache, with its data.
C28_RecacheKeepsOthers ==
    [][(now' = now + 1 /\ ret'.op = "cacheMovie" /\ MapHas(movieCache, ret'.args[1])) =>
          /\ MapGet(movieCache', ret'.args[1]) = ret'.args[2]
          /\ \A k \in 1..Len(movieCache) :
                 movieCache[k].id # ret'.args[1] =>
                     MapGet(movieCache', movieCache[k].id) = movieCache[k].data]_vars

\* The newest 100 records of a log.
Newest100(log) == SubSeq(log, 1, Min(Len(log), 100))

\* C29: after a like, minimumRating is max(5.0, average - 1) of the likes
\* among the newest 100 records when these are more than 5, and what it was
\* when they are 5 or fewer; likes that fell out of the log do not count.
C29_FloorFromPresentLikes ==
    [][(now' = now + 1 /\ ret'.op = "saveInteraction" /\ ret'.args[2] = "like") =>
          LET ratings == Ratings(Likes(Newest100(StoredLog')))
              n == Len(ratings)
              new == Loaded'.minimumRating
          IN  /\ Len(StoredLog') <= 100
              /\ n > 5 => new[1] * n = new[2] * Max(50 * n, Sum(ratings) - 10 * n)
              /\ n <= 5 => new = Loaded.minimumRating]_vars

\* C29 witness: a like of a movie rated 0 on a full log pushed an old like
\* out; 5 likes are left and minimumRating is the 7.0 that six likes, two
\* of them gone by now, gave it.
C29_KeptAfterEviction ==
    /\ Swiped
    /\ ret.args[2] = "like"
    /\ ret.args[1].vote_average = 0
    /\ Len(StoredLog) = 100
    /\ Len(Likes(StoredLog)) = 5
    /\ Loaded.minimumRating = <<70, 1>>

\* C30: a swipe made while the stored log is no JSON, and localStorage takes
\* writes, leaves a log of the one new record and updates the profile: a
\* like makes favorites of the movie's genres that are not disliked, a
\* dislike makes all of them disliked and none a favorite, a skip changes
\* no preference.
C30_UnreadableLogIsEmpty ==
    [][(/\ now' = now + 1
        /\ ret'.op = "saveInteraction"
        /\ localStorage[INTERACTIONS_KEY].kind = "garbage"
        /\ mode = "ok") =>
          LET movie == ret'.args[1]
              action == ret'.args[2]
          IN  /\ StoredLog' = <<Record(movie, action, now)>>
              /\ Loaded'.lastUpdated = now
              /\ action = "like" =>
                     \A k \in 1..Len(movie.genre_ids) :
                         \/ Includes(Loaded'.favoriteGenres, movie.genre_ids[k])
                         \/ Includes(Loaded.dislikedGenres, movie.genre_ids[k])
              /\ action = "dislike" =>
                     \A k \in 1..Len(movie.genre_ids) :
                         /\ Includes(Loaded'.dislikedGenres, movie.genre_ids[k])
                         /\ ~Includes(Loaded'.favoriteGenres, movie.genre_ids[k])
              /\ action = "skip" => Fields(Loaded') = Fields(Loaded)]_vars

\* C30 witness: the first swipe of the page, a dislike of an action movie,
\* found the log of an earlier session unreadable: the log is that one
\* record, and the profile of the earlier session has lost its favorite 28
\* to the disliked genres.
C30_HistoryDiscarded ==
    /\ Swiped
    /\ now = 1
    /\ ret.args[2] = "dislike"
    /\ StoredLog = <<Record(ret.args[1], "dislike", 0)>>
    /\ Loaded.favoriteGenres = <<35>>
    /\ Loaded.dislikedGenres = <<28>>

\* Positions of the log of events that hold an event of one of these kinds
EventsOf(kinds) == {k \in 1..Len(events) : events[k].ev \in kinds}

\* The step appended this kind of event at position Len(events) + 1
Appends(kind) ==
    /\ Len(events') > Len(events)
    /\ events'[Len(events) + 1].ev = kind

\* C26: func of debounce is invoked only for the most recent call of
\* debounced, once, with the arguments of that call and not before delay has
\* passed since it, so that calls each made less than delay after the one
\* before lead to one invocation; at most one timer of debounce is set at
\* any time; and a call is followed in the end by a later call or by the
\* invocation of func.
C26_Debounce ==
    /\ [][Appends("debounce.func") =>
            LET earlier == EventsOf({"debounced", "debounce.func"})
                last == CHOOSE k \in earlier : \A j \in earlier : j <= k
            IN  /\ earlier # {}
                /\ events[last].ev = "debounced"
                /\ events'[Len(events')].args = events[last].args
                /\ now >= events[last].at + delay]_vars
    /\ [](Cardinality({timer \in timers : timer.callback = "func"}) <= 1)
    /\ \A k \in 1..(2 * MaxCalls) :
           (Len(events) >= k /\ events[k].ev = "debounced")
               ~> (\E j \in EventsOf({"debounced", "debounce.func"}) : j > k)

\* C26 witness: debounced("a") at 0 and debounced("b") at 1, less than
\* delay later, have led to the one invocation func("b").
C26_BurstOfTwo ==
    /\ Len(events) = 3
    /\ events[1] = Event("debounced", <<"a">>, 0)
    /\ events[2] = Event("debounced", <<"b">>, 1)
    /\ events[3].ev = "debounce.func"
    /\ events[3].args = <<"b">>
    /\ timers = {}

\* C27: a call of throttled invokes func at once if the last invocation is
\* more than limit ago (or there is none) and does not if it is less than
\* limit ago; func is invoked in no other step and with no other arguments
\* than those of the call being made; and inThrottle does not stay set.
C27_Throttle ==
    /\ [][Appends("throttled") =>
            LET invocations == EventsOf({"throttle.func"})
                invokes == Len(events') = Len(events) + 2
            IN  /\ (\A j \in invocations : now - events[j].at > limit) => invokes
                /\ (\E j \in invocations : now - events[j].at < limit) => ~invokes
                /\ invokes => events'[Len(events')] =
                                  Event("throttle.func", events'[Len(events) + 1].args, now)]_vars
    /\ [][~Appends("throttle.func")]_vars
    /\ inThrottle ~> ~inThrottle

====
